---- MODULE Spec2Model ----
(***************************************************************************)
(* Model of src/app.py: a Dash dashboard over a crime dataset.             *)
(*                                                                         *)
(* The module-level code reads the CSV, derives Year, completes the        *)
(* State x Crime Category x Year grid by a left merge and fillna(0), and   *)
(* builds the layout.  Four callbacks then serve the page: update_map,     *)
(* update_scatter_plot, update_bar_chart and update_checklist.             *)
(*                                                                         *)
(* Data frames are sequences of records (one record per row, columns as    *)
(* fields).  A groupby(...).sum() result is a function from the group key  *)
(* to the sum.  A figure is a record of the data handed to plotly.         *)
(***************************************************************************)
EXTENDS Integers, Sequences, FiniteSets, TLC

(***************************************************************************)
(* Bounds of the model and the domains the raw CSV cells are drawn from.   *)
(***************************************************************************)
MaxRows == 2

StateNames == {"Johor", "Selangor"}
CategoryNames == {"Property"}
CrimeTypeNames == {"Theft", "Robbery"}
IncidentDates == {"2020", "n/a"}
CrimeCounts == {1, 2}

\* pandas' missing value: NaN in a numeric column, NaNStr in a text column.
NaN == 0 - 1
NaNStr == "NaN"
\* what fillna(0) leaves in a text column
ZeroStr == "0"
\* Python's None (the default of create_map's parameter)
None == "<None>"
All == "All"

VARIABLES
    pc,              \* "import" while the module-level code has not run, then "serving"
    rawRows,         \* the rows of the CSV as read by pd.read_csv (line 13)
    df,              \* the global data frame after line 21
    dropdownValue,   \* value of 'state-dropdown'
    checklistValue,  \* value of 'crime-type-checklist'
    mapFigure,       \* figure of 'choropleth-map'
    scatterFigure,   \* figure of 'scatter-plot'
    barFigure,       \* figure of 'bar-chart'
    pending,         \* callbacks requested and not yet executed
    rawSelection     \* history: the checklist value that started the current checklist change

vars == <<pc, rawRows, df, dropdownValue, checklistValue, mapFigure, scatterFigure,
          barFigure, pending, rawSelection>>

(***************************************************************************)
(* Sequence helpers.                                                       *)
(***************************************************************************)
Range(s) == {s[i] : i \in 1..Len(s)}

SeqsUpTo(S, n) == UNION {[1..k -> S] : k \in 0..n}

RECURSIVE SumCrimes(_)
\* Series.sum() of the 'Reported Crimes' column (NaN cells are skipped)
SumCrimes(rows) ==
    IF rows = << >> THEN 0
    ELSE (IF Head(rows).ReportedCrimes = NaN THEN 0 ELSE Head(rows).ReportedCrimes)
         + SumCrimes(Tail(rows))

RECURSIVE unique(_)
\* Series.unique(): the distinct values in order of first appearance
unique(s) ==
    IF s = << >> THEN << >>
    ELSE LET rest == unique(SubSeq(s, 1, Len(s) - 1))
             last == s[Len(s)]
         IN  IF last \in Range(rest) THEN rest ELSE Append(rest, last)

Column(rows, col) == [i \in 1..Len(rows) |-> rows[i][col]]

MinOf(S) == IF S = {} THEN NaN ELSE CHOOSE m \in S : \A x \in S : m <= x
MaxOf(S) == IF S = {} THEN NaN ELSE CHOOSE m \in S : \A x \in S : m >= x

(***************************************************************************)
(* Lines 13-21: loading and reshaping.                                     *)
(***************************************************************************)
RawRowDomain ==
    [State : StateNames, CrimeCategory : CategoryNames, CrimeType : CrimeTypeNames,
     IncidentDate : IncidentDates, ReportedCrimes : CrimeCounts]

\* pd.to_numeric(..., errors='coerce'): the number a cell spells, NaN otherwise
to_numeric(cell) ==
    CASE cell = "2020" -> 2020
      [] cell = "2021" -> 2021
      [] OTHER -> NaN

\* line 14: df['Year'] = pd.to_numeric(df['Incident Date'], errors='coerce')
WithYear(rows) ==
    [i \in 1..Len(rows) |->
        [State |-> rows[i].State, CrimeCategory |-> rows[i].CrimeCategory,
         CrimeType |-> rows[i].CrimeType, IncidentDate |-> rows[i].IncidentDate,
         ReportedCrimes |-> rows[i].ReportedCrimes,
         Year |-> to_numeric(rows[i].IncidentDate)]]

\* line 20: pd.MultiIndex.from_product([states, categories, years]).to_frame(index=False)
from_product(ss, cs, ys) ==
    [i \in 1..(Len(ss) * Len(cs) * Len(ys)) |->
        [State |-> ss[((i - 1) \div (Len(cs) * Len(ys))) + 1],
         CrimeCategory |-> cs[(((i - 1) \div Len(ys)) % Len(cs)) + 1],
         Year |-> ys[((i - 1) % Len(ys)) + 1]]]

SameKey(l, r) ==
    /\ l.State = r.State
    /\ l.CrimeCategory = r.CrimeCategory
    /\ l.Year = r.Year

\* how='inner': a key of the grid without a match is dropped
MergeRowsInner(l, right) ==
    LET Match(r) == SameKey(l, r)
    IN  SelectSeq(right, Match)

\* a merge that keeps one match per key and drops the other rows sharing it
MergeRowsFirst(l, right) ==
    LET Match(r) == SameKey(l, r)
        m == SelectSeq(right, Match)
    IN  IF m = << >>
        THEN << [State |-> l.State, CrimeCategory |-> l.CrimeCategory, Year |-> l.Year,
                 CrimeType |-> NaNStr, IncidentDate |-> NaNStr, ReportedCrimes |-> NaN] >>
        ELSE << Head(m) >>

\* how='left': the rows the merge emits for one row of the left frame
MergeRows(l, right) ==
    LET Match(r) == SameKey(l, r)
        m == SelectSeq(right, Match)
    IN  IF m = << >>
        THEN << [State |-> l.State, CrimeCategory |-> l.CrimeCategory, Year |-> l.Year,
                 CrimeType |-> NaNStr, IncidentDate |-> NaNStr, ReportedCrimes |-> NaN] >>
        ELSE m

RECURSIVE merge_left(_, _)
\* line 21: pd.merge(full_df, df, on=['State','Crime Category','Year'], how='left')
merge_left(left, right) ==
    IF left = << >> THEN << >>
    ELSE MergeRows(Head(left), right) \o merge_left(Tail(left), right)

FillText(v) == IF v = NaNStr THEN ZeroStr ELSE v
FillNum(v) == IF v = NaN THEN 0 ELSE v

\* line 21: .fillna(0)
fillna0(rows) ==
    [i \in 1..Len(rows) |->
        [State |-> FillText(rows[i].State),
         CrimeCategory |-> FillText(rows[i].CrimeCategory),
         CrimeType |-> FillText(rows[i].CrimeType),
         IncidentDate |-> FillText(rows[i].IncidentDate),
         ReportedCrimes |-> FillNum(rows[i].ReportedCrimes),
         Year |-> FillNum(rows[i].Year)]]

\* lines 14-21 as one function of the rows read
complete(rows) ==
    LET raw == WithYear(rows)
        states == unique(Column(raw, "State"))
        categories == unique(Column(raw, "CrimeCategory"))
        years == unique(Column(raw, "Year"))
        full_df == from_product(states, categories, years)
    IN  fillna0(merge_left(full_df, raw))

(***************************************************************************)
(* Lines 28-120: the view builders.  They read the global df.              *)
(***************************************************************************)
RowsOfState(rows, s) ==
    LET InState(r) == r.State = s
    IN  SelectSeq(rows, InState)

\* rows.groupby('State', as_index=False)['Reported Crimes'].sum()
GroupByState(rows) ==
    [s \in Range(Column(rows, "State")) |-> SumCrimes(RowsOfState(rows, s))]

FnValues(f) == {f[k] : k \in DOMAIN f}

\* Python truth value of the selected_state argument
Truthy(v) == v # None /\ v # ""

\* lines 30-31 with the bounds taken over the rows actually shown
create_map_filtered_range(selected_state) ==
    LET shown == IF Truthy(selected_state) /\ selected_state # All
                 THEN GroupByState(RowsOfState(df, selected_state))
                 ELSE GroupByState(df)
    IN  [locations |-> shown,
         range_color |-> <<MinOf(FnValues(shown)), MaxOf(FnValues(shown))>>]

\* lines 33-42 with the else branch taken whatever the selection
create_map_unfiltered(selected_state) ==
    LET df_grouped == GroupByState(df)
    IN  [locations |-> df_grouped,
         range_color |-> <<MinOf(FnValues(df_grouped)), MaxOf(FnValues(df_grouped))>>]

\* lines 28-47
create_map(selected_state) ==
    LET df_grouped == GroupByState(df)
        min_crimes == MinOf(FnValues(df_grouped))
        max_crimes == MaxOf(FnValues(df_grouped))
    IN  IF Truthy(selected_state) /\ selected_state # All
        THEN [locations |-> GroupByState(RowsOfState(df, selected_state)),
              range_color |-> <<min_crimes, max_crimes>>]
        ELSE [locations |-> df_grouped,
              range_color |-> <<min_crimes, max_crimes>>]

\* lines 49-101: one point per row of df, the y axis ticks are the states
create_scatter_plot ==
    [points |-> [i \in 1..Len(df) |->
                    [x |-> df[i].ReportedCrimes, y |-> df[i].State,
                     frame |-> df[i].Year, facet |-> df[i].CrimeCategory]],
     ticktext |-> unique(Column(df, "State"))]

BarGroup(rows, s, t) ==
    LET InGroup(r) == r.State = s /\ r.CrimeType = t
    IN  SelectSeq(rows, InGroup)

\* lines 103-120
create_bar_chart(selected_crime_types) ==
    LET Selected(r) == r.CrimeType \in Range(selected_crime_types)
        filtered_df == SelectSeq(df, Selected)
        keys == {<<filtered_df[i].State, filtered_df[i].CrimeType>> :
                    i \in 1..Len(filtered_df)}
    IN  [bars |-> [k \in keys |-> SumCrimes(BarGroup(filtered_df, k[1], k[2]))]]

\* lines 206-209 without the expansion of 'All'
update_bar_chart_no_expansion(selected_crime_types) ==
    create_bar_chart(selected_crime_types)

\* lines 206-209 without the 'or not selected_crime_types' test
update_bar_chart_all_only(selected_crime_types) ==
    IF All \in Range(selected_crime_types)
    THEN create_bar_chart(unique(Column(df, "CrimeType")))
    ELSE create_bar_chart(selected_crime_types)

\* lines 206-209
update_bar_chart(selected_crime_types) ==
    IF All \in Range(selected_crime_types) \/ selected_crime_types = << >>
    THEN create_bar_chart(unique(Column(df, "CrimeType")))
    ELSE create_bar_chart(selected_crime_types)

Without(s, v) ==
    LET Keep(x) == x # v
    IN  SelectSeq(s, Keep)

\* lines 215-220 with the len(selected_values) > 1 test left out
update_checklist_always_drop(selected_values) ==
    IF selected_values = << >> THEN <<All>>
    ELSE IF All \in Range(selected_values) THEN Without(selected_values, All)
    ELSE selected_values

\* lines 215-220 without lines 218-219
update_checklist_no_drop(selected_values) ==
    IF selected_values = << >> THEN <<All>> ELSE selected_values

\* lines 215-220 without lines 216-217
update_checklist_no_reset(selected_values) ==
    IF All \in Range(selected_values) /\ Len(selected_values) > 1
    THEN Without(selected_values, All)
    ELSE selected_values

\* lines 215-220
update_checklist(selected_values) ==
    IF selected_values = << >> THEN <<All>>
    ELSE IF All \in Range(selected_values) /\ Len(selected_values) > 1
         THEN Without(selected_values, All)
    ELSE selected_values

(***************************************************************************)
(* Lines 122-186: the layout.                                              *)
(***************************************************************************)
\* lines 141-142: options of 'state-dropdown'
DropdownOptions == <<All>> \o unique(Column(df, "State"))

\* lines 173-174: options of 'crime-type-checklist'
ChecklistOptions == <<All>> \o unique(Column(df, "CrimeType"))

\* a dcc.Graph that no callback has filled yet
NoFigure == [empty |-> TRUE]

(***************************************************************************)
(* Lines 188-220: the callbacks as registered with Dash.  Dash requests    *)
(* every callback once when the page loads, and afterwards the callbacks   *)
(* whose Input changed.  A requested callback whose Input is the Output of *)
(* another requested callback waits for that one; a callback is not        *)
(* requested again by its own Output.                                      *)
(***************************************************************************)
Callbacks == {"update_map", "update_scatter_plot", "update_bar_chart", "update_checklist"}

CallbackInput(cb) ==
    CASE cb = "update_map" -> "state-dropdown.value"
      [] cb = "update_scatter_plot" -> "scatter-plot.id"
      [] cb = "update_bar_chart" -> "crime-type-checklist.value"
      [] cb = "update_checklist" -> "crime-type-checklist.value"

CallbackOutput(cb) ==
    CASE cb = "update_map" -> "choropleth-map.figure"
      [] cb = "update_scatter_plot" -> "scatter-plot.figure"
      [] cb = "update_bar_chart" -> "bar-chart.figure"
      [] cb = "update_checklist" -> "crime-type-checklist.value"

\* the registration with update_scatter_plot listening to the dropdown as well
CallbacksByInputWithScatter(prop) ==
    {cb \in Callbacks : CallbackInput(cb) = prop}
        \cup (IF prop = "state-dropdown.value" THEN {"update_scatter_plot"} ELSE {})

CallbacksByInput(prop) == {cb \in Callbacks : CallbackInput(cb) = prop}

\* the callbacks an executed callback requests through its Output
Triggered(cb) == CallbacksByInput(CallbackOutput(cb)) \ {cb}

Ready(cb) ==
    /\ cb \in pending
    /\ \A other \in pending \ {cb} : CallbackOutput(other) # CallbackInput(cb)

(***************************************************************************)
(* The state machine.                                                      *)
(***************************************************************************)
Init ==
    /\ pc = "import"
    /\ rawRows \in SeqsUpTo(RawRowDomain, MaxRows)
    /\ df = << >>
    /\ dropdownValue = None
    /\ checklistValue = << >>
    /\ mapFigure = NoFigure
    /\ scatterFigure = NoFigure
    /\ barFigure = NoFigure
    /\ pending = {}
    /\ rawSelection = << >>

\* lines 13-186: the module-level code, then the first page load
Startup ==
    /\ pc = "import"
    /\ pc' = "serving"
    /\ df' = complete(rawRows)
    /\ dropdownValue' = All
    /\ checklistValue' = <<All>>
    /\ rawSelection' = <<All>>
    /\ pending' = Callbacks
    /\ UNCHANGED <<rawRows, mapFigure, scatterFigure, barFigure>>

\* the user picks another state in the dropdown (clearable=False)
SelectState(s) ==
    /\ pc = "serving"
    /\ pending = {}
    /\ s \in Range(DropdownOptions)
    /\ s # dropdownValue
    /\ dropdownValue' = s
    /\ pending' = CallbacksByInput("state-dropdown.value")
    /\ UNCHANGED <<pc, rawRows, df, checklistValue, mapFigure, scatterFigure, barFigure,
                   rawSelection>>

\* the user ticks or unticks one box of the checklist
ToggleCrimeType(t) ==
    /\ pc = "serving"
    /\ pending = {}
    /\ t \in Range(ChecklistOptions)
    /\ checklistValue' = IF t \in Range(checklistValue)
                         THEN Without(checklistValue, t)
                         ELSE Append(checklistValue, t)
    /\ rawSelection' = checklistValue'
    /\ pending' = CallbacksByInput("crime-type-checklist.value")
    /\ UNCHANGED <<pc, rawRows, df, dropdownValue, mapFigure, scatterFigure, barFigure>>

\* lines 188-193
UpdateMap ==
    /\ Ready("update_map")
    /\ mapFigure' = create_map(dropdownValue)
    /\ pending' = (pending \ {"update_map"}) \cup Triggered("update_map")
    /\ UNCHANGED <<pc, rawRows, df, dropdownValue, checklistValue, scatterFigure, barFigure,
                   rawSelection>>

\* lines 195-200
UpdateScatterPlot ==
    /\ Ready("update_scatter_plot")
    /\ scatterFigure' = create_scatter_plot
    /\ pending' = (pending \ {"update_scatter_plot"}) \cup Triggered("update_scatter_plot")
    /\ UNCHANGED <<pc, rawRows, df, dropdownValue, checklistValue, mapFigure, barFigure,
                   rawSelection>>

\* lines 202-209
UpdateBarChart ==
    /\ Ready("update_bar_chart")
    /\ barFigure' = update_bar_chart(checklistValue)
    /\ pending' = (pending \ {"update_bar_chart"}) \cup Triggered("update_bar_chart")
    /\ UNCHANGED <<pc, rawRows, df, dropdownValue, checklistValue, mapFigure, scatterFigure,
                   rawSelection>>

\* lines 211-220
UpdateChecklist ==
    /\ Ready("update_checklist")
    /\ checklistValue' = update_checklist(checklistValue)
    /\ pending' = (pending \ {"update_checklist"}) \cup Triggered("update_checklist")
    /\ UNCHANGED <<pc, rawRows, df, dropdownValue, mapFigure, scatterFigure, barFigure,
                   rawSelection>>

Next ==
    \/ Startup
    \/ \E s \in StateNames \cup {All} : SelectState(s)
    \/ \E t \in CrimeTypeNames \cup {All, ZeroStr} : ToggleCrimeType(t)
    \/ UpdateMap
    \/ UpdateScatterPlot
    \/ UpdateBarChart
    \/ UpdateChecklist

Spec == Init /\ [][Next]_vars

(***************************************************************************)
(* Properties.                                                             *)
(***************************************************************************)
Serving == pc = "serving"

\* the state Startup leaves: df is built (no later action assigns it) and the
\* first page load has requested every callback
GridBuilt == pc = "serving" /\ pending = Callbacks

RawFrame == WithYear(rawRows)

\* the (state, category, year) triples of the distinct values of the raw rows
RawTriples ==
    Range(Column(RawFrame, "State")) \X Range(Column(RawFrame, "CrimeCategory"))
        \X Range(Column(RawFrame, "Year"))

\* the rows of the raw frame of a triple
RawRowsOf(frame, tr) ==
    LET Has(r) == r.State = tr[1] /\ r.CrimeCategory = tr[2] /\ r.Year = tr[3]
    IN  SelectSeq(frame, Has)

\* the rows of df of a triple (fillna(0) has turned a NaN year into 0)
GridRowsOf(tr) ==
    LET Has(r) == r.State = tr[1] /\ r.CrimeCategory = tr[2] /\ r.Year = FillNum(tr[3])
    IN  SelectSeq(df, Has)

\* C1 as stated: every triple of the observed domains has exactly one row in the
\* completed grid, holding the sum of the raw rows of the triple (0 when none).
C1_OneRowPerTriple ==
    GridBuilt =>
        LET frame == RawFrame
        IN  \A tr \in RawTriples :
                LET grid == GridRowsOf(tr)
                IN  /\ Len(grid) = 1
                    /\ grid[1].ReportedCrimes = SumCrimes(RawRowsOf(frame, tr))

\* C1 amended: every triple of the observed domains has one row per raw row of
\* the triple (raw rows sharing a triple stay several rows), or exactly one row
\* with 0 reported crimes when no raw row has the triple; the reported crimes of
\* the triple's rows add up to the sum of its raw rows.
C1_RowsPerTriple ==
    GridBuilt =>
        LET frame == RawFrame
        IN  \A tr \in RawTriples :
                LET grid == GridRowsOf(tr)
                    raw == RawRowsOf(frame, tr)
                IN  /\ Len(grid) = (IF raw = << >> THEN 1 ELSE Len(raw))
                    /\ SumCrimes(grid) = SumCrimes(raw)
                    /\ raw = << >> => grid[1].ReportedCrimes = 0

\* C1 witness: the grid is built and two raw rows of different crime types share a triple
C1_Witness ==
    /\ GridBuilt
    /\ \E tr \in RawTriples :
        /\ Len(RawRowsOf(RawFrame, tr)) = 2
        /\ RawRowsOf(RawFrame, tr)[1].CrimeType # RawRowsOf(RawFrame, tr)[2].CrimeType
        /\ Len(GridRowsOf(tr)) = 2

\* the normalization of a raw selection as section 4.6 words it
Normalized(S) ==
    IF S = << >> THEN <<All>>
    ELSE IF All \in Range(S) /\ \E v \in Range(S) : v # All THEN Without(S, All)
    ELSE S

\* C2: once update_checklist has run on the raw selection S, the checklist holds
\* ["All"] if S is empty, S without "All" (order kept) if S mixes "All" with other
\* entries, and S unchanged otherwise.
C2_Normalization ==
    (Serving /\ "update_checklist" \notin pending) =>
        /\ checklistValue = Normalized(rawSelection)
        /\ rawSelection = << >> => checklistValue = <<All>>
        /\ rawSelection = <<All>> => checklistValue = <<All>>
        /\ All \notin Range(rawSelection) /\ rawSelection # << >> => checklistValue = rawSelection

\* C2 witness: update_checklist has rewritten ["All", T] to [T]
C2_Witness ==
    /\ Serving
    /\ "update_checklist" \notin pending
    /\ Len(rawSelection) = 2
    /\ rawSelection[1] = All
    /\ checklistValue = <<rawSelection[2]>>

\* the crime types a normalized selection stands for
TypesShown(S) == IF S = <<All>> THEN unique(Column(df, "CrimeType")) ELSE S

\* C3: once update_bar_chart has run for a checklist change with raw selection S,
\* the bar chart is the chart of the normalized selection, not of S.
C3_BarChartOfNormalized ==
    (Serving /\ "update_bar_chart" \notin pending) =>
        barFigure = create_bar_chart(TypesShown(Normalized(rawSelection)))

\* C3 witness: for S = ["All", T] the chart shows T only, and df has other types
C3_Witness ==
    /\ Serving
    /\ "update_bar_chart" \notin pending
    /\ Len(rawSelection) = 2
    /\ rawSelection[1] = All
    /\ barFigure = create_bar_chart(<<rawSelection[2]>>)
    /\ barFigure # create_bar_chart(unique(Column(df, "CrimeType")))
    /\ barFigure.bars # << >>

\* the states of the grid and their totals
GridStates == {df[i].State : i \in 1..Len(df)}
StateTotal(s) == SumCrimes(RowsOfState(df, s))
GlobalRange ==
    <<MinOf({StateTotal(s) : s \in GridStates}), MaxOf({StateTotal(s) : s \in GridStates})>>

\* C4: whatever the selected state (None, "All" or a state), range_color is the
\* minimum and maximum of the per-state totals over all states of the grid.
C4_RangeColorGlobal ==
    Serving =>
        LET range == GlobalRange
        IN  /\ \A s \in {None, All} \cup GridStates : create_map(s).range_color = range
            /\ mapFigure # NoFigure => mapFigure.range_color = range

\* C4 witness: the map shows one selected state while the totals of the states differ
C4_Witness ==
    /\ Serving
    /\ "update_map" \notin pending
    /\ dropdownValue \in GridStates
    /\ mapFigure # NoFigure
    /\ DOMAIN mapFigure.locations = {dropdownValue}
    /\ GlobalRange[1] < GlobalRange[2]

\* C5: the chart of ["All"], and of the empty selection, has the groups and sums
\* of the chart of every distinct crime type passed explicitly.
C5_AllIsEveryType ==
    Serving =>
        LET explicit == create_bar_chart(Tail(ChecklistOptions))
        IN  /\ update_bar_chart(<<All>>) = explicit
            /\ update_bar_chart(<< >>) = explicit
            /\ ("update_bar_chart" \notin pending /\ checklistValue = <<All>>) =>
                    /\ barFigure = explicit
                    /\ DOMAIN barFigure.bars
                            = {<<df[i].State, df[i].CrimeType>> : i \in 1..Len(df)}
                    /\ \A k \in DOMAIN barFigure.bars :
                            barFigure.bars[k] = SumCrimes(BarGroup(df, k[1], k[2]))

\* C5 witness: the chart of ["All"] is shown and has bars of two crime types
C5_Witness ==
    /\ Serving
    /\ "update_bar_chart" \notin pending
    /\ checklistValue = <<All>>
    /\ \E k1, k2 \in DOMAIN barFigure.bars : k1[2] # k2[2] /\ barFigure.bars[k1] > 0

\* C6: the checklist starts as ["All"]; whenever no update_checklist is pending
\* its value is non-empty and is either exactly ["All"] or free of "All".
C6_AllExclusive ==
    /\ (Serving /\ rawSelection = <<All>>) => checklistValue = <<All>>
    /\ (Serving /\ "update_checklist" \notin pending) =>
            /\ checklistValue # << >>
            /\ checklistValue = <<All>> \/ All \notin Range(checklistValue)

\* C6 witness: the user emptied the checklist and it was reset to ["All"]
C6_Witness ==
    /\ Serving
    /\ "update_checklist" \notin pending
    /\ rawSelection = << >>
    /\ checklistValue = <<All>>

\* C7: the scatter figure is built at load and never requested again; a dropdown
\* change requests update_map only, a checklist change requests update_checklist
\* and update_bar_chart only, and neither touches the scatter figure or the
\* other filter.
C7_Frame ==
    [][ /\ (Serving /\ pending' = {}) => scatterFigure' = create_scatter_plot
        /\ (Serving /\ scatterFigure # NoFigure) =>
                /\ scatterFigure' = scatterFigure
                /\ "update_scatter_plot" \notin pending'
        /\ (Serving /\ dropdownValue' # dropdownValue) =>
                /\ pending' = {"update_map"}
                /\ UNCHANGED <<checklistValue, scatterFigure, barFigure, mapFigure>>
        /\ (Serving /\ pending = {} /\ checklistValue' # checklistValue) =>
                /\ pending' = {"update_checklist", "update_bar_chart"}
                /\ UNCHANGED <<dropdownValue, scatterFigure, barFigure, mapFigure>>
        /\ (Serving /\ mapFigure' # mapFigure) =>
                UNCHANGED <<dropdownValue, checklistValue, scatterFigure, barFigure>>
        /\ (Serving /\ barFigure' # barFigure) =>
                UNCHANGED <<dropdownValue, checklistValue, scatterFigure, mapFigure>>
        /\ (Serving /\ "update_checklist" \in pending /\ checklistValue' # checklistValue) =>
                UNCHANGED <<dropdownValue, scatterFigure, mapFigure, barFigure>>
      ]_vars

\* C7 witness: both filters were changed and served after the scatter figure was built
C7_Witness ==
    /\ Serving
    /\ pending = {}
    /\ scatterFigure = create_scatter_plot
    /\ Len(scatterFigure.points) > 0
    /\ dropdownValue # All
    /\ checklistValue # <<All>>
    /\ mapFigure = create_map(dropdownValue)
    /\ barFigure = update_bar_chart(checklistValue)

\* C8: for a concrete state s the map has the single region s with the total s
\* has in the unfiltered map; for None or "All" it has every state with its total.
C8_MapRegions ==
    Serving =>
        LET totals == [x \in GridStates |-> StateTotal(x)]
            unfiltered == create_map(All).locations
        IN  /\ unfiltered = totals
            /\ create_map(None).locations = totals
            /\ \A s \in GridStates : create_map(s).locations = [x \in {s} |-> unfiltered[s]]
            /\ ("update_map" \notin pending /\ dropdownValue \in GridStates) =>
                    mapFigure.locations = [x \in {dropdownValue} |-> totals[x]]
            /\ ("update_map" \notin pending /\ dropdownValue = All) =>
                    mapFigure.locations = totals

\* C8 witness: the map shows one state of a grid of two states
C8_Witness ==
    /\ Serving
    /\ "update_map" \notin pending
    /\ dropdownValue \in GridStates
    /\ Cardinality(GridStates) = 2
    /\ DOMAIN mapFigure.locations = {dropdownValue}
    /\ mapFigure.locations[dropdownValue] > 0

\* the raw rows as they read after fillna(0)
RawFilled == fillna0(RawFrame)

\* C9: every raw row is in df as often as in the raw data, every other row of df
\* has 0 reported crimes, and the sums per state and per (state, crime type) of
\* df are those of the raw rows.
C9_RawRowsKept ==
    GridBuilt =>
        /\ LET filled == RawFilled
           IN  /\ \A i \in 1..Len(filled) :
                    Cardinality({k \in 1..Len(df) : df[k] = filled[i]})
                        = Cardinality({j \in 1..Len(filled) : filled[j] = filled[i]})
               /\ \A k \in 1..Len(df) :
                    df[k] \notin Range(filled) => df[k].ReportedCrimes = 0
        /\ \A s \in StateNames : StateTotal(s) = SumCrimes(RowsOfState(rawRows, s))
        /\ \A s \in StateNames, t \in CrimeTypeNames :
                SumCrimes(BarGroup(df, s, t)) = SumCrimes(BarGroup(rawRows, s, t))

\* C9 witness: the grid holds the two raw rows and rows the completion added
C9_Witness ==
    /\ GridBuilt
    /\ Len(rawRows) = 2
    /\ Len(df) > Len(rawRows)
    /\ \E k \in 1..Len(df) : df[k] \notin Range(RawFilled)

\* the selections a checklist over every option can hold: each option at most once
MaxSel == 3
Selections ==
    {S \in SeqsUpTo(CrimeTypeNames \cup {All, ZeroStr}, MaxSel) :
        \A i, j \in 1..Len(S) : S[i] = S[j] => i = j}

\* C10: update_checklist is idempotent, so the value it leaves is one it does not
\* change again (one rewrite settles it), and the bar chart shown when nothing is
\* pending is the chart of that settled value.
C10_Settles ==
    /\ pc = "import" =>
            \A S \in Selections : update_checklist(update_checklist(S)) = update_checklist(S)
    /\ (Serving /\ "update_checklist" \notin pending) =>
            /\ update_checklist(checklistValue) = checklistValue
            /\ checklistValue = update_checklist(rawSelection)
    /\ (Serving /\ pending = {}) => barFigure = update_bar_chart(checklistValue)

\* C10 witness: a selection that update_checklist rewrote has settled and is charted
C10_Witness ==
    /\ Serving
    /\ pending = {}
    /\ rawSelection # checklistValue
    /\ All \in Range(rawSelection)
    /\ update_checklist(checklistValue) = checklistValue
    /\ barFigure = create_bar_chart(checklistValue)

====
